---- MODULE Spec2Model ----
(***************************************************************************)
(* Model of scripts/kimi-run.py: KimiRunner.run supervising one child      *)
(* process.  The runner is a single thread whose position is pc; the       *)
(* child process, the wall clock and the operator's interrupt (SIGINT,     *)
(* raised by Python as KeyboardInterrupt between any two statements) are   *)
(* the environment.                                                        *)
(***************************************************************************)
EXTENDS Integers, Sequences, FiniteSets, TLC

\* ------------------------------------------------------------- bounds
MaxClock == 2        \* the wall clock counts 0..MaxClock, then saturates
MaxTimeout == 1      \* self.timeout is drawn from 1..MaxTimeout
MaxWrites == 2       \* chunks the child may write
MaxInterrupts == 1   \* interrupts the operator may send

\* ------------------------------------------------------------- constants
GraceSecs == 1       \* time.sleep(1) between terminate() and poll()
NONE == -1           \* Python's None for process.poll() / returncode / ret
SIGTERM == 15
SIGKILL == 9

\* What one write(2) of the child puts into the merged stdout/stderr pipe:
\* a complete line, an unterminated partial line, a CRLF-terminated line that
\* holds a byte that is not valid UTF-8.
\* "n" is LF, "r" is CR, "x" is the invalid byte.
ChunkSet == { <<"a", "n">>, <<"b">>, <<"x", "r", "n">> }
ChildCodes == {0, 3, 124}
MockOutput == <<"m", "n">>

\* ------------------------------------------------------------- text helpers
RECURSIVE Flatten(_)
Flatten(ss) == IF ss = <<>> THEN <<>> ELSE Head(ss) \o Flatten(Tail(ss))

\* text=True, encoding='utf-8', errors='replace': the TextIOWrapper decodes
\* with U+FFFD ("?") for invalid bytes and translates CRLF and CR to LF.
RECURSIVE Decode(_)
Decode(bs) ==
    IF bs = <<>> THEN <<>>
    ELSE IF Head(bs) = "r"
         THEN IF Len(bs) > 1 /\ bs[2] = "n"
              THEN <<"n">> \o Decode(Tail(Tail(bs)))
              ELSE <<"n">> \o Decode(Tail(bs))
    ELSE IF Head(bs) = "x" THEN <<"?">> \o Decode(Tail(bs))
    ELSE <<Head(bs)>> \o Decode(Tail(bs))

HasNewline(t) == \E i \in 1..Len(t) : t[i] = "n"
FirstNewline(t) == CHOOSE i \in 1..Len(t) : t[i] = "n" /\ \A j \in 1..(i-1) : t[j] # "n"
Min(a, b) == IF a < b THEN a ELSE b

VARIABLES
    pc,             \* position of the runner thread
    probe,          \* outcome of `which kimi`: "found", "absent", "error"
    kimi_exists,    \* local of run()
    timeout,        \* self.timeout
    start_time,     \* self.start_time
    clock,          \* time.time()
    child,          \* "none", "running", "exited"
    childCode,      \* exit status of the child once it exited
    honoursTerm,    \* the child dies on SIGTERM (else it ignores it)
    sigPending,     \* signals delivered to the child, not yet acted on
    pipeHeld,       \* another process holds the write end of the pipe
    written,        \* chunks the child wrote, in order
    pipe,           \* bytes in the kernel pipe, unread
    rbuf,           \* decoded text held by process.stdout (TextIOWrapper)
    line,           \* local `line` / `remaining`
    process,        \* the local `process` is bound
    returncode,     \* process.returncode
    output_buffer,  \* self.output_buffer
    mirror,         \* chunks written to sys.stderr by lines 106 and 116
    diag,           \* tags of the diagnostic lines printed to sys.stderr
    signals,        \* signals sent to the child by the runner, in order
    ret,            \* value returned by run()
    interrupts,     \* interrupts received so far
    launched,       \* Popen started a child
    graceDone,      \* the time.sleep(1) of the timeout path has returned
    runningAtGrace, \* the child was running when that sleep returned
    intAfterLaunch, \* an interrupt arrived after the child was launched
    exitedEarly,    \* the child exited by itself before the deadline
    childCwd,       \* the cwd= the child was launched with
    override,       \* the tool-location override: "unset", "valid", "invalid"
    workdir,        \* self.workdir (before __init__: the workdir argument)
    dirExists,      \* the directory workdir names exists
    mainPc,         \* position of main() once run() has returned
    output,         \* local `output` of main()
    stdout,         \* what main() has printed to sys.stdout, in order
    mainRet         \* value returned by main()

vars == << pc, probe, kimi_exists, timeout, start_time, clock, child, childCode,
           honoursTerm, sigPending, pipeHeld, written, pipe, rbuf, line, process,
           returncode, output_buffer, mirror, diag, signals, ret, interrupts,
           launched, graceDone, runningAtGrace, intAfterLaunch,
           exitedEarly, childCwd, override, workdir, dirExists, mainPc, output,
           stdout, mainRet >>

envVars == << child, childCode, sigPending, written, pipe >>
cfgVars == << probe, timeout, honoursTerm, pipeHeld, override >>
mainVars == << workdir, dirExists, mainPc, output, stdout, mainRet >>
ioVars == << rbuf, line, output_buffer, mirror >>
histVars == << launched, graceDone, runningAtGrace, intAfterLaunch,
              exitedEarly, childCwd >>

\* Paths are sequences of components; an absolute path starts with "/".
Cwd == << "/", "home" >>
WorkdirArgs == { << "." >>, << "w" >>, << "/", "w" >> }
Overrides == { "unset", "valid", "invalid" }
IsAbsolute(p) == p # <<>> /\ p[1] = "/"

\* line 29: Path(workdir).resolve()
Resolve(p) ==
    IF IsAbsolute(p) THEN p
    ELSE IF p = << "." >> THEN Cwd
    ELSE Cwd \o p

\* The state when main() calls KimiRunner(...) (line 249), for the given sets
\* of configurations.
InitWith(overrides, workdirs, terms, helds) ==
    /\ pc = "init"
    /\ override \in overrides
    /\ workdir \in workdirs
    /\ dirExists \in BOOLEAN
    /\ childCwd = <<>>
    /\ mainPc = "run"
    /\ output = <<>>
    /\ stdout = <<>>
    /\ mainRet = NONE
    /\ probe \in {"found", "absent", "error"}
    /\ kimi_exists = FALSE
    /\ timeout \in 1..MaxTimeout
    /\ start_time = NONE
    /\ clock = 0
    /\ child = "none"
    /\ childCode = NONE
    /\ honoursTerm \in terms
    /\ sigPending = {}
    /\ pipeHeld \in helds
    /\ written = <<>>
    /\ pipe = <<>>
    /\ rbuf = <<>>
    /\ line = <<>>
    /\ process = FALSE
    /\ returncode = NONE
    /\ output_buffer = <<>>
    /\ mirror = <<>>
    /\ diag = {}
    /\ signals = <<>>
    /\ ret = NONE
    /\ interrupts = 0
    /\ launched = FALSE
    /\ graceDone = FALSE
    /\ runningAtGrace = FALSE
    /\ intAfterLaunch = FALSE
    /\ exitedEarly = FALSE

\* Every child behaviour, one configuration (no override, a relative workdir).
Init == InitWith({"unset"}, { << "w" >> }, BOOLEAN, BOOLEAN)

\* Every configuration, one child behaviour (dies on SIGTERM, pipe not shared).
ConfigInit == InitWith(Overrides, WorkdirArgs, {TRUE}, {FALSE})


\* ------------------------------------------------------------- stdlib helpers
\* The end of the merged stream is signalled once every write end is closed.
EndOfStream == child = "exited" /\ ~pipeHeld

\* Popen.poll(): the exit status once the child has exited, else None.
PollValue ==
    IF returncode # NONE THEN returncode
    ELSE IF child = "exited" THEN childCode ELSE NONE

\* Popen.send_signal(sig), used by terminate() and kill(): polls, and signals
\* the child only if it has not been found exited.
SendSignal(sig) ==
    /\ returncode' = PollValue
    /\ IF PollValue = NONE
       THEN /\ signals' = Append(signals, sig)
            /\ sigPending' = sigPending \cup {sig}
       ELSE UNCHANGED << signals, sigPending >>

\* Positions inside the try block of _run_kimi_cli (lines 75-118).
TryPcs == { "popen", "bind", "loop", "t_term", "t_sleep", "t_poll", "t_kill",
            "t_ret", "select", "readline", "append", "write", "poll", "drain",
            "d_append", "d_write", "d_ret" }
Returned == pc = "done"
Finished == pc \in {"done", "raised"}

\* ------------------------------------------------------------- __init__
\* Variant of lines 29-37 that keeps the workdir argument as it was given.
Construct_Unresolved ==
    /\ pc = "init"
    /\ workdir' = workdir
    /\ dirExists' = TRUE
    /\ pc' = "start"
    /\ UNCHANGED << mainPc, output, stdout, mainRet >>
    /\ UNCHANGED << kimi_exists, start_time, clock, process, returncode, diag,
                    signals, ret, interrupts >>
    /\ UNCHANGED << envVars, cfgVars, ioVars, histVars >>

\* lines 27-37: the workdir is resolved to an absolute path and created when
\* it does not exist; when it cannot be created mkdir raises and no runner
\* exists.
Construct ==
    /\ pc = "init"
    /\ workdir' = Resolve(workdir)
    /\ \/ dirExists' = TRUE /\ pc' = "start"
       \/ ~dirExists /\ dirExists' = FALSE /\ pc' = "raised"
    /\ UNCHANGED << mainPc, output, stdout, mainRet >>
    /\ UNCHANGED << kimi_exists, start_time, clock, process, returncode, diag,
                    signals, ret, interrupts >>
    /\ UNCHANGED << envVars, cfgVars, ioVars, histVars >>

\* Another process removes the working directory before the launch.
RemoveDir ==
    /\ pc \in {"start", "check", "build", "popen"}
    /\ dirExists
    /\ dirExists' = FALSE
    /\ UNCHANGED << workdir, mainPc, output, stdout, mainRet >>
    /\ UNCHANGED << pc, kimi_exists, start_time, clock, process, returncode, diag,
                    signals, ret, interrupts >>
    /\ UNCHANGED << envVars, cfgVars, ioVars, histVars >>

\* ------------------------------------------------------------- run()
\* line 41
Start ==
    /\ pc = "start"
    /\ start_time' = clock
    /\ pc' = "check"
    /\ UNCHANGED << kimi_exists, clock, process, returncode, diag, signals, ret,
                    interrupts >>
    /\ UNCHANGED << envVars, cfgVars, mainVars, ioVars, histVars >>

\* _check_kimi_cli, lines 52-62: `which kimi` returned 0; any exception is False.
CheckKimiCli == probe = "found"

\* lines 44-50
RunCheck ==
    /\ pc = "check"
    /\ kimi_exists' = CheckKimiCli
    /\ IF CheckKimiCli
       THEN pc' = "build" /\ diag' = diag
       ELSE pc' = "mock" /\ diag' = diag \cup {"INFO"}
    /\ UNCHANGED << start_time, clock, process, returncode, signals, ret, interrupts >>
    /\ UNCHANGED << envVars, cfgVars, mainVars, ioVars, histVars >>

\* _mock_kimi_execution, lines 132-210: prints the mock response to stderr,
\* appends it to the buffer and returns 0.
MockKimiExecution ==
    /\ pc = "mock"
    /\ diag' = diag \cup {"MOCK"}
    /\ mirror' = Append(mirror, MockOutput)
    /\ output_buffer' = Append(output_buffer, MockOutput)
    /\ ret' = 0
    /\ pc' = "done"
    /\ UNCHANGED << kimi_exists, start_time, clock, process, returncode, signals,
                    interrupts, rbuf, line >>
    /\ UNCHANGED << envVars, cfgVars, mainVars, histVars >>

\* ------------------------------------------------------------- _run_kimi_cli
\* lines 67-73: build cmd, print "[Kimi] Executing"
Build ==
    /\ pc = "build"
    /\ diag' = diag \cup {"EXEC"}
    /\ pc' = "popen"
    /\ UNCHANGED << kimi_exists, start_time, clock, process, returncode, signals,
                    ret, interrupts >>
    /\ UNCHANGED << envVars, cfgVars, mainVars, ioVars, histVars >>

\* lines 77-85: subprocess.Popen starts the child in cwd=self.workdir, or
\* raises FileNotFoundError (executable or cwd vanished), or another OSError.
PopenOutcome(o) ==
    /\ pc = "popen"
    /\ \/ /\ o = "ok"
          /\ dirExists
          /\ child' = "running"
          /\ launched' = TRUE
          /\ childCwd' = workdir
          /\ pc' = "bind"
       \/ /\ o = "fnf"
          /\ pc' = "h_fnf"
          /\ UNCHANGED << child, launched, childCwd >>
       \/ /\ o = "oserror"
          /\ pc' = "h_exc"
          /\ UNCHANGED << child, launched, childCwd >>
    /\ UNCHANGED << kimi_exists, start_time, clock, process, returncode, diag,
                    signals, ret, interrupts, childCode, sigPending, written, pipe,
                    graceDone, runningAtGrace, intAfterLaunch,
                    exitedEarly >>
    /\ UNCHANGED << cfgVars, mainVars, ioVars >>

Popen == \E o \in {"ok", "fnf", "oserror"} : PopenOutcome(o)

\* line 77: the result of Popen is bound to the local `process`
Bind ==
    /\ pc = "bind"
    /\ process' = TRUE
    /\ pc' = "loop"
    /\ UNCHANGED << kimi_exists, start_time, clock, returncode, diag, signals, ret,
                    interrupts >>
    /\ UNCHANGED << envVars, cfgVars, mainVars, ioVars, histVars >>

\* line 91
TimedOut == clock - start_time > timeout

\* lines 90-92
CheckTimeout ==
    /\ pc = "loop"
    /\ IF TimedOut
       THEN pc' = "t_term" /\ diag' = diag \cup {"TIMEOUT"}
       ELSE pc' = "select" /\ diag' = diag
    /\ UNCHANGED << kimi_exists, start_time, clock, process, returncode, signals,
                    ret, interrupts >>
    /\ UNCHANGED << envVars, cfgVars, mainVars, ioVars, histVars >>

\* Variant of line 93 that starts the termination with the forced kill.
TimeoutTerminate_KillFirst ==
    /\ pc = "t_term"
    /\ SendSignal(SIGKILL)
    /\ pc' = "t_sleep"
    /\ UNCHANGED << kimi_exists, start_time, clock, process, diag, ret, interrupts,
                    child, childCode, written, pipe >>
    /\ UNCHANGED << cfgVars, mainVars, ioVars, histVars >>

\* line 93
TimeoutTerminate ==
    /\ pc = "t_term"
    /\ SendSignal(SIGTERM)
    /\ pc' = "t_sleep"
    /\ UNCHANGED << kimi_exists, start_time, clock, process, diag, ret, interrupts,
                    child, childCode, written, pipe >>
    /\ UNCHANGED << cfgVars, mainVars, ioVars, histVars >>

\* line 94
TimeoutSleep ==
    /\ pc = "t_sleep"
    /\ clock' = Min(clock + GraceSecs, MaxClock)
    /\ graceDone' = TRUE
    /\ runningAtGrace' = (child = "running")
    /\ pc' = "t_poll"
    /\ UNCHANGED << kimi_exists, start_time, process, returncode, diag, signals,
                    ret, interrupts, launched, intAfterLaunch,
                    exitedEarly, childCwd >>
    /\ UNCHANGED << envVars, cfgVars, mainVars, ioVars >>

\* line 95
StillRunning == PollValue = NONE

TimeoutPoll ==
    /\ pc = "t_poll"
    /\ returncode' = PollValue
    /\ pc' = IF StillRunning THEN "t_kill" ELSE "t_ret"
    /\ UNCHANGED << kimi_exists, start_time, clock, process, diag, signals, ret,
                    interrupts >>
    /\ UNCHANGED << envVars, cfgVars, mainVars, ioVars, histVars >>

\* line 96
TimeoutKill ==
    /\ pc = "t_kill"
    /\ SendSignal(SIGKILL)
    /\ pc' = "t_ret"
    /\ UNCHANGED << kimi_exists, start_time, clock, process, diag, ret, interrupts,
                    child, childCode, written, pipe >>
    /\ UNCHANGED << cfgVars, mainVars, ioVars, histVars >>

\* line 97
TimeoutReturn ==
    /\ pc = "t_ret"
    /\ ret' = 124
    /\ pc' = "done"
    /\ UNCHANGED << kimi_exists, start_time, clock, process, returncode, diag,
                    signals, interrupts >>
    /\ UNCHANGED << envVars, cfgVars, mainVars, ioVars, histVars >>


\* lines 100-102: select.select([process.stdout], [], [], 0.1) looks at the file
\* descriptor (data in the pipe, or end of stream), not at the text already
\* buffered in process.stdout.  It may raise (OSError/ValueError).
Readable == pipe # <<>> \/ EndOfStream

Select ==
    /\ pc = "select"
    /\ \/ pc' = IF Readable THEN "readline" ELSE "poll"
       \/ pc' = "h_exc"
    /\ UNCHANGED << kimi_exists, start_time, clock, process, returncode, diag,
                    signals, ret, interrupts >>
    /\ UNCHANGED << envVars, cfgVars, mainVars, ioVars, histVars >>

\* lines 103-104: process.stdout.readline() returns the next decoded line from
\* its buffer; without a complete line it reads what the pipe holds (blocking
\* while the pipe is empty and the stream is not at its end) and tries again;
\* at end of stream it returns the unterminated rest, possibly "".
ReadlineFromBuffer ==
    /\ HasNewline(rbuf)
    /\ line' = SubSeq(rbuf, 1, FirstNewline(rbuf))
    /\ rbuf' = SubSeq(rbuf, FirstNewline(rbuf) + 1, Len(rbuf))
    /\ pc' = "append"
    /\ pipe' = pipe

ReadlineFill ==
    /\ ~HasNewline(rbuf)
    /\ pipe # <<>>
    /\ rbuf' = rbuf \o Decode(pipe)
    /\ pipe' = <<>>
    /\ UNCHANGED << line, pc >>

ReadlineAtEnd ==
    /\ ~HasNewline(rbuf)
    /\ pipe = <<>>
    /\ EndOfStream
    /\ line' = rbuf
    /\ rbuf' = <<>>
    /\ pc' = IF rbuf # <<>> THEN "append" ELSE "poll"
    /\ pipe' = pipe

Readline ==
    /\ pc = "readline"
    /\ (ReadlineFromBuffer \/ ReadlineFill \/ ReadlineAtEnd)
    /\ UNCHANGED << kimi_exists, start_time, clock, process, returncode, diag,
                    signals, ret, interrupts, output_buffer, mirror,
                    child, childCode, sigPending, written >>
    /\ UNCHANGED << cfgVars, mainVars, histVars >>

\* Variant of lines 105 / 115 that appends the chunk twice.
BufferAppend_Twice(from, to) ==
    /\ pc = from
    /\ output_buffer' = output_buffer \o << line, line >>
    /\ pc' = to
    /\ UNCHANGED << kimi_exists, start_time, clock, process, returncode, diag,
                    signals, ret, interrupts, rbuf, line, mirror >>
    /\ UNCHANGED << envVars, cfgVars, mainVars, histVars >>

\* lines 105 and 115: self.output_buffer.append(...)
BufferAppend(from, to) ==
    /\ pc = from
    /\ output_buffer' = Append(output_buffer, line)
    /\ pc' = to
    /\ UNCHANGED << kimi_exists, start_time, clock, process, returncode, diag,
                    signals, ret, interrupts, rbuf, line, mirror >>
    /\ UNCHANGED << envVars, cfgVars, mainVars, histVars >>

\* Variant of lines 106-107 / 116-117 that keeps the chunk off the live stream.
StderrWrite_Silent(from, to) ==
    /\ pc = from
    /\ mirror' = mirror
    /\ pc' \in {to, "h_exc"}
    /\ UNCHANGED << kimi_exists, start_time, clock, process, returncode, diag,
                    signals, ret, interrupts, rbuf, line, output_buffer >>
    /\ UNCHANGED << envVars, cfgVars, mainVars, histVars >>

\* lines 106-107 and 116-117: sys.stderr.write(...); sys.stderr.flush(), which
\* may raise OSError.
StderrWrite(from, to) ==
    /\ pc = from
    /\ \/ mirror' = Append(mirror, line) /\ pc' = to
       \/ mirror' = mirror /\ pc' = "h_exc"
    /\ UNCHANGED << kimi_exists, start_time, clock, process, returncode, diag,
                    signals, ret, interrupts, rbuf, line, output_buffer >>
    /\ UNCHANGED << envVars, cfgVars, mainVars, histVars >>

LineAppend == BufferAppend("append", "write")
LineWrite == StderrWrite("write", "poll")

\* lines 110-111
PollChild ==
    /\ pc = "poll"
    /\ returncode' = PollValue
    /\ pc' = IF PollValue # NONE THEN "drain" ELSE "loop"
    /\ UNCHANGED << kimi_exists, start_time, clock, process, diag, signals, ret,
                    interrupts >>
    /\ UNCHANGED << envVars, cfgVars, mainVars, ioVars, histVars >>

\* lines 113-114: process.stdout.read() returns everything up to the end of the
\* stream, and blocks until the end of the stream is signalled.
Drain ==
    /\ pc = "drain"
    /\ EndOfStream
    /\ line' = rbuf \o Decode(pipe)
    /\ rbuf' = <<>>
    /\ pipe' = <<>>
    /\ pc' = IF rbuf \o Decode(pipe) # <<>> THEN "d_append" ELSE "d_ret"
    /\ UNCHANGED << kimi_exists, start_time, clock, process, returncode, diag,
                    signals, ret, interrupts, output_buffer, mirror,
                    child, childCode, sigPending, written >>
    /\ UNCHANGED << cfgVars, mainVars, histVars >>

RemainingAppend == BufferAppend("d_append", "d_write")
RemainingWrite == StderrWrite("d_write", "d_ret")

\* line 118
ReturnRet ==
    /\ pc = "d_ret"
    /\ ret' = returncode
    /\ pc' = "done"
    /\ UNCHANGED << kimi_exists, start_time, clock, process, returncode, diag,
                    signals, interrupts >>
    /\ UNCHANGED << envVars, cfgVars, mainVars, ioVars, histVars >>

\* lines 120-122: except FileNotFoundError
HandleFileNotFound ==
    /\ pc = "h_fnf"
    /\ diag' = diag \cup {"ERROR_START"}
    /\ pc' = "mock"
    /\ UNCHANGED << kimi_exists, start_time, clock, process, returncode, signals,
                    ret, interrupts >>
    /\ UNCHANGED << envVars, cfgVars, mainVars, ioVars, histVars >>

\* lines 123-124: except KeyboardInterrupt, print
HandleInterruptPrint ==
    /\ pc = "h_int"
    /\ diag' = diag \cup {"INTERRUPT"}
    /\ pc' = "h_int_term"
    /\ UNCHANGED << kimi_exists, start_time, clock, process, returncode, signals,
                    ret, interrupts >>
    /\ UNCHANGED << envVars, cfgVars, mainVars, ioVars, histVars >>

\* lines 125-127
HandleInterruptTerminate ==
    /\ pc = "h_int_term"
    /\ IF process
       THEN SendSignal(SIGTERM)
       ELSE UNCHANGED << returncode, signals, sigPending >>
    /\ ret' = 130
    /\ pc' = "done"
    /\ UNCHANGED << kimi_exists, start_time, clock, process, diag, interrupts,
                    child, childCode, written, pipe >>
    /\ UNCHANGED << cfgVars, mainVars, ioVars, histVars >>

\* lines 128-130: except Exception
HandleException ==
    /\ pc = "h_exc"
    /\ diag' = diag \cup {"ERROR_UNEXPECTED"}
    /\ ret' = 1
    /\ pc' = "done"
    /\ UNCHANGED << kimi_exists, start_time, clock, process, returncode, signals,
                    interrupts >>
    /\ UNCHANGED << envVars, cfgVars, mainVars, ioVars, histVars >>

\* ------------------------------------------------------------- environment
\* SIGINT: Python raises KeyboardInterrupt in the runner at its next statement
\* (a blocked select/readline/read/sleep is cut short).  Inside the try block
\* the handler of line 123 takes over; anywhere else (before the try, in
\* _mock_kimi_execution, inside an except handler) no handler of run() is in
\* scope and the exception leaves run().
Interrupt ==
    /\ ~Finished
    /\ interrupts < MaxInterrupts
    /\ interrupts' = interrupts + 1
    /\ pc' = IF pc \in TryPcs THEN "h_int" ELSE "raised"
    /\ intAfterLaunch' = (intAfterLaunch \/ launched)
    /\ UNCHANGED << kimi_exists, start_time, clock, process, returncode, diag,
                    signals, ret, launched, graceDone,
                    runningAtGrace, exitedEarly, childCwd >>
    /\ UNCHANGED << envVars, cfgVars, mainVars, ioVars >>

Tick ==
    /\ ~Finished
    /\ clock < MaxClock
    /\ clock' = clock + 1
    /\ UNCHANGED << pc, kimi_exists, start_time, process, returncode, diag,
                    signals, ret, interrupts >>
    /\ UNCHANGED << envVars, cfgVars, mainVars, ioVars, histVars >>

runnerVars == << pc, kimi_exists, start_time, clock, process, returncode, diag,
                 signals, ret, interrupts >>

ChildWrite(c) ==
    /\ child = "running"
    /\ ~Finished
    /\ Len(written) < MaxWrites
    /\ written' = Append(written, c)
    /\ pipe' = pipe \o c
    /\ UNCHANGED << child, childCode, sigPending >>
    /\ UNCHANGED << runnerVars, cfgVars, mainVars, ioVars, histVars >>

ChildExit(code) ==
    /\ child = "running"
    /\ ~Finished
    /\ child' = "exited"
    /\ childCode' = code
    /\ sigPending' = {}
    /\ exitedEarly' = (clock - start_time < timeout)
    /\ UNCHANGED << written, pipe, launched, graceDone,
                    runningAtGrace, intAfterLaunch, childCwd >>
    /\ UNCHANGED << runnerVars, cfgVars, mainVars, ioVars >>

\* The child acts on a delivered SIGTERM: it dies of it, or ignores it.
ChildOnTerm ==
    /\ child = "running"
    /\ SIGTERM \in sigPending
    /\ IF honoursTerm
       THEN child' = "exited" /\ childCode' = -SIGTERM /\ sigPending' = {}
       ELSE sigPending' = sigPending \ {SIGTERM} /\ UNCHANGED << child, childCode >>
    /\ UNCHANGED << written, pipe >>
    /\ UNCHANGED << runnerVars, cfgVars, mainVars, ioVars, histVars >>

\* A delivered SIGKILL ends the child.
ChildOnKill ==
    /\ child = "running"
    /\ SIGKILL \in sigPending
    /\ child' = "exited"
    /\ childCode' = -SIGKILL
    /\ sigPending' = {}
    /\ UNCHANGED << written, pipe >>
    /\ UNCHANGED << runnerVars, cfgVars, mainVars, ioVars, histVars >>

\* ------------------------------------------------------------- get_output
\* lines 212-214
get_output == Flatten(output_buffer)

\* ------------------------------------------------------------- main()
\* The two marker lines and the separator line of lines 262-265.
Separator == << "=" >>
OutputStart == << "[KIMI_OUTPUT_START]" >>
OutputEnd == << "[KIMI_OUTPUT_END]" >>

notMain == << pc, kimi_exists, start_time, clock, process, returncode, diag,
              signals, ret, launched, graceDone, runningAtGrace, exitedEarly,
              childCwd >>

\* lines 258-261: exit_code = runner.run(); output = runner.get_output()
MainGetOutput ==
    /\ Returned
    /\ mainPc = "run"
    /\ output' = get_output
    /\ mainPc' = "emit"
    /\ UNCHANGED << workdir, dirExists, stdout, mainRet, interrupts, intAfterLaunch >>
    /\ UNCHANGED << notMain, envVars, cfgVars, ioVars >>

\* Variant of lines 262-267 that closes the buffer with the start marker.
MainEmit_WrongMarker ==
    /\ mainPc = "emit"
    /\ stdout' = stdout \o << Separator, OutputStart, output, OutputStart >>
    /\ mainRet' = ret
    /\ mainPc' = "returned"
    /\ UNCHANGED << workdir, dirExists, output, interrupts, intAfterLaunch >>
    /\ UNCHANGED << notMain, envVars, cfgVars, ioVars >>

\* lines 262-267: the separator, the start marker, the buffer and the end
\* marker are printed to sys.stdout, then main returns exit_code.
MainEmit ==
    /\ mainPc = "emit"
    /\ stdout' = stdout \o << Separator, OutputStart, output, OutputEnd >>
    /\ mainRet' = ret
    /\ mainPc' = "returned"
    /\ UNCHANGED << workdir, dirExists, output, interrupts, intAfterLaunch >>
    /\ UNCHANGED << notMain, envVars, cfgVars, ioVars >>

MainStep == Construct \/ MainGetOutput \/ MainEmit

RunnerStep ==
    \/ Start \/ RunCheck \/ MockKimiExecution \/ Build \/ Popen \/ Bind
    \/ CheckTimeout \/ TimeoutTerminate \/ TimeoutSleep \/ TimeoutPoll
    \/ TimeoutKill \/ TimeoutReturn
    \/ Select \/ Readline \/ LineAppend \/ LineWrite \/ PollChild
    \/ Drain \/ RemainingAppend \/ RemainingWrite \/ ReturnRet
    \/ HandleFileNotFound \/ HandleInterruptPrint \/ HandleInterruptTerminate
    \/ HandleException

ChildStep ==
    \/ \E c \in ChunkSet : ChildWrite(c)
    \/ \E code \in ChildCodes : ChildExit(code)
    \/ ChildOnTerm
    \/ ChildOnKill

Next ==
    \/ MainStep \/ RunnerStep \/ ChildStep
    \/ Interrupt \/ Tick \/ RemoveDir

Spec == Init /\ [][Next]_vars

\* The same program over every configuration (override, workdir argument).
ConfigSpec == ConfigInit /\ [][Next]_vars

\* The runner thread runs whenever it is not blocked, time passes, and the
\* kernel delivers pending signals; the child owes no output and no exit.
FairSpec ==
    /\ Spec
    /\ WF_vars(MainStep)
    /\ WF_vars(RunnerStep)
    /\ WF_vars(Tick)
    /\ WF_vars(ChildOnTerm)
    /\ WF_vars(ChildOnKill)


\* ------------------------------------------------------------- properties
IsPrefix(a, b) == Len(a) <= Len(b) /\ SubSeq(b, 1, Len(a)) = a

\* ============================================================= claims

\* C1: whenever the existence probe reports the tool absent, run returns 127
\* and never launches the supervised command.
C1_AbsentReturns127 ==
    (Returned /\ probe # "found") => (ret = 127 /\ ~launched)

\* C2: a child that is still running once the timeout has been exceeded, and
\* that does not exit by itself afterwards, leads to run returning 124 with the
\* child stopped (unless an interrupt or an internal error takes the run
\* elsewhere); once run has returned 124 and every signal it sent has taken
\* effect, the child is not running.
ChildOverran == launched /\ child = "running" /\ TimedOut /\ ~Finished
Diverted == interrupts > 0 \/ pc = "h_exc" \/ "ERROR_UNEXPECTED" \in diag
SelfExited == child = "exited" /\ childCode \in ChildCodes
C2_TimeoutReturns124 ==
    /\ [](ChildOverran => <>(\/ Diverted
                             \/ SelfExited
                             \/ (Returned /\ ret = 124 /\ child # "running")))
    /\ []((Returned /\ ret = 124 /\ sigPending = {}) => child # "running")

\* C3: a forced kill is sent only after a graceful signal was sent, the grace
\* wait has elapsed and the child was still running at its end; the first
\* signal sent is never the forced kill.
KillSent == Len(signals') = Len(signals) + 1 /\ signals'[Len(signals')] = SIGKILL
C3_GracefulBeforeKill ==
    /\ [][KillSent => /\ \E i \in 1..Len(signals) : signals[i] = SIGTERM
                      /\ graceDone
                      /\ runningAtGrace]_vars
    /\ [](signals # <<>> => Head(signals) = SIGTERM)
C3_Witness == signals = << SIGTERM, SIGKILL >> /\ Returned /\ ret = 124

\* C4: when the child exited by itself before the deadline and no interrupt
\* (and no internal error) occurred, run returns the child's exit code and
\* get_output() is the concatenation of every chunk the child wrote.
C4_ExitCodeAndOutput ==
    (Returned /\ launched /\ exitedEarly /\ ~Diverted)
        => (ret = childCode /\ get_output = Flatten(written))

\* C5: an interrupt that arrives after the child was launched and before run
\* returns makes run return 130.
C5_InterruptReturns130 ==
    (Finished /\ intAfterLaunch) => (Returned /\ ret = 130)

\* C6: when run has returned 130 for a child whose handle it held, and every
\* signal it sent has taken effect, the child is not running.
C6_InterruptStopsChild ==
    (Returned /\ ret = 130 /\ process /\ sigPending = {}) => child # "running"

\* C7: when the launch raised file-not-found, run returns 127.
C7_LaunchFailureReturns127 ==
    (Returned /\ "ERROR_START" \in diag) => ret = 127

\* C8: the return code identifies the outcome: 124 only after the timeout
\* fired, 130 only after an interrupt, 127 only when the tool was not found or
\* failed to start, 0 only when a child ran and exited with code 0.
C8_ReturnCodeIdentifiesOutcome ==
    Returned =>
        /\ ret = 124 => "TIMEOUT" \in diag
        /\ ret = 130 => interrupts > 0
        /\ ret = 127 => (probe # "found" \/ "ERROR_START" \in diag)
        /\ ret = 0 => (launched /\ child = "exited" /\ childCode = 0)

TeeCutShort == intAfterLaunch \/ pc = "h_exc" \/ "ERROR_UNEXPECTED" \in diag
C10_CleanupOnReturn ==
    (Returned /\ process) => returncode # NONE

\* C11: once the child has exited, run eventually returns (or raises): neither
\* readline nor the final read blocks for ever, whoever else holds the pipe.
C11_ReturnsAfterChildExit ==
    [](child = "exited" => <>Finished)

\* C12: when an unexpected exception was handled after the launch and the
\* child is still running as run returns 1, a termination signal was sent.
C12_ErrorTerminatesChild ==
    (Returned /\ ret = 1 /\ "ERROR_UNEXPECTED" \in diag /\ launched
        /\ child = "running")
        => signals # <<>>

\* C16: while the child is running, an iteration of the drain loop that the
\* deadline overtakes gets back to the deadline check of line 90 (unless the
\* child exits, or an interrupt or an internal error takes the run elsewhere).
InIteration == pc \in {"select", "readline", "append", "write", "poll"}
C16_DeadlineCheckReached ==
    []((InIteration /\ TimedOut) => <>(pc = "loop" \/ child = "exited" \/ Diverted))

\* The bracketed prefix of each diagnostic line (lines 47, 73, 92, 121, 124,
\* 129, 134).
Tag(d) ==
    CASE d = "INFO" -> "[INFO]"
      [] d = "MOCK" -> "[Kimi Mock]"
      [] d = "EXEC" -> "[Kimi]"
      [] d = "TIMEOUT" -> "[TIMEOUT]"
      [] d = "INTERRUPT" -> "[INTERRUPT]"
      [] d = "ERROR_START" -> "[ERROR]"
      [] d = "ERROR_UNEXPECTED" -> "[ERROR]"
Tags == { Tag(d) : d \in diag }

\* C17: when run has returned 124 for a timeout the stream holds a [TIMEOUT]
\* line, when it has returned 130 an [INTERRUPT] line, and when it has reported
\* the tool missing or the launch failed a line with a fatal/error tag.
TimeoutOutcome == Returned /\ ret = 124 /\ returncode # 124
NotFoundOutcome == Returned /\ (probe # "found" \/ "ERROR_START" \in diag)
C17_OutcomeAnnounced ==
    /\ TimeoutOutcome => "[TIMEOUT]" \in Tags
    /\ (Returned /\ ret = 130) => "[INTERRUPT]" \in Tags
    /\ NotFoundOutcome => Tags \cap {"[ERROR]", "[FATAL]"} # {}

\* C18: run returns 124 for a timeout only if the child was still running
\* when the termination signal was sent, that is, a signal was in fact sent.
C18_TimeoutOnlyForRunningChild ==
    TimeoutOutcome => signals # <<>>

Framed == << Separator, OutputStart, get_output, OutputEnd >>

\* C13: main prints nothing before run has returned; what it prints is, in
\* order and once each, the start marker, the accumulated buffer and the end
\* marker; and when main returns it returns the exit code of run.
C13_MainFramesOutput ==
    /\ stdout # <<>> => Returned
    /\ IsPrefix(stdout, Framed)
    /\ mainPc = "returned" => (stdout = Framed /\ mainRet = ret)

C13_Witness ==
    /\ mainPc = "returned"
    /\ mainRet = 124
    /\ get_output # <<>>
    /\ stdout = Framed

\* C14: when the override names an existing regular file, the tool is
\* reported found whatever the PATH lookup says.
C14_OverrideFirst ==
    (override = "valid" /\ pc \notin {"init", "start", "check", "raised"}) => kimi_exists

\* C15: whenever a child is launched, the working directory is an absolute
\* path, it exists at the launch, and it is the child's current directory.
C15_LaunchedInWorkdir ==
    /\ [](launched => (IsAbsolute(workdir) /\ childCwd = workdir))
    /\ [][(~launched /\ launched') => dirExists]_vars

C15_Witness ==
    /\ launched
    /\ workdir = Cwd \o << "w" >>
    /\ childCwd = workdir

====
